---- MODULE Spec2Model ----
(***************************************************************************)
(* A model of the vocabulary-flashcard bot: the StudyManager (the SQL      *)
(* operations on the card, users and user_card tables), the User.calc_level*)
(* formula and the CardsBot message handlers with the per-chat state the   *)
(* bot framework keeps for them.                                           *)
(*                                                                         *)
(* A string is the sequence of its comma separated parts; a part is a     *)
(* record [l, c]: l names its lower-cased spelling (l >= 0: latin letters,*)
(* l < 0: cyrillic letters), c the letter case it is written in, so that  *)
(* lower-casing a string sets every c to 0.                                *)
(***************************************************************************)
EXTENDS Integers, Sequences, FiniteSets, TLC

\* ------------------------------------------------------------------ bounds
\* Cards of the default collection loaded at launch (assets/cards/*.json).
NDefaultCards == 5
\* Words a user can type beyond those of the default collection.
NExtraWords == 1
\* Cap of the aggregate user score in the specifications of all operations.
MaxScore == 2
\* Cap of the aggregate user score in the specification of studying alone.
MaxDeepScore == 11
\* Cap of the aggregate user score in the specification of several users.
MaxUsersScore == 6
\* Largest score calc_level is applied to in SpecLevel.
MaxLevelScore == 217
\* Largest reading of the clock; each reading is one later than the last.
MaxTime == 3

\* ------------------------------------------------------- program constants
\* The collection created first gets id 1 (collection.id is SERIAL).
DefaultCollection == 1
\* user_card_choices(uid, k = 4)
K == 4
\* Seconds per day, the unit of a card's weight.
SecondsPerDay == 86400

\* ----------------------------------------------------------------- helpers
Put(f, k, v) == [x \in (DOMAIN f) \cup {k} |-> IF x = k THEN v ELSE f[x]]
Drop(f, S) == [x \in (DOMAIN f) \ S |-> f[x]]
Max(a, b) == IF a >= b THEN a ELSE b

\* The one-part string spelled l in letter case c.
Str(l, c) == <<[l |-> l, c |-> c]>>
\* SQL LOWER() and str.lower(): the string with its letter case removed.
Lower(s) == [i \in 1..Len(s) |-> [l |-> s[i].l, c |-> 0]]

\* Python's `a in b` on strings, on sequences of parts: a is a contiguous
\* part of b.
Contains(b, a) ==
    \E i \in 0..(Len(b) - Len(a)) : \A j \in 1..Len(a) : b[i + j] = a[j]

\* None, and a returned value v, as sequences (an Optional).
None == <<>>
Some(v) == <<v>>

VARIABLES
    db,     \* the database: tables card, card_collection, users, user_card
    now,    \* the clock read by datetime.now() and time()
    chat,   \* the bot's StateMemoryStorage: uid -> [state, data]
    last,   \* the last call: its arguments, what it read and what it returned
    tx      \* the user_card_study calls running side by side, by submission

vars == <<db, now, chat, last, tx>>

\* -------------------------------------------------------------- model.py
\* int(2 * log2(score / 10 + 1) + 1) for score >= 0.  The value is at least
\* n + 1 iff 2 * log2((score + 10) / 10) >= n iff (score + 10)^2 >= 100 * 2^n,
\* so the level is found by counting up in exact integer arithmetic (log2 is
\* exact at the powers of two, the only scores where the float could tip).
RECURSIVE LevelFrom(_, _)
LevelFrom(score, n) ==
    IF (score + 10) * (score + 10) >= 100 * 2^n
    THEN LevelFrom(score, n + 1)
    ELSE n

\* round() in place of int(): at least n + 1 iff 2 * log2(x) + 1 >= n + 1/2
\* iff x^4 >= 2^(2n - 1), with x = (score + 10) / 10.
RECURSIVE RoundedFrom(_, _)
RoundedFrom(score, n) ==
    IF (score + 10) * (score + 10) * (score + 10) * (score + 10)
         >= 10000 * 2^(2 * n - 1)
    THEN RoundedFrom(score, n + 1)
    ELSE n

calc_level_rounded(user) == RoundedFrom(user.score, 1)

calc_level(user) == IF user.score < 0 THEN 0 ELSE LevelFrom(user.score, 1)

\* ------------------------------------------------------ study_manager.py
\* Every operation takes the database d and returns [db, ret, ok]: the
\* database after it, the value returned, and ok = FALSE when it raised
\* (the caller's `with db.connect()` then rolls the transaction back).
Ok(d, ret) == [db |-> d, ret |-> ret, ok |-> TRUE]
Raise(d) == [db |-> d, ret |-> None, ok |-> FALSE]

CardIds(d) == 1..Len(d.card)
\* The ids of the cards whose word equals `word` ignoring case.
CardsOfWord(d, word) == {i \in CardIds(d) : Lower(d.card[i].word) = Lower(word)}

\* card_exists comparing the words as they are, without LOWER.
card_exists_exact(d, word) == \E i \in CardIds(d) : d.card[i].word = word

card_exists(d, word) == Cardinality(CardsOfWord(d, word)) > 0

\* query_single: the one matching row, None when there is none.
card_load(d, word) ==
    IF CardsOfWord(d, word) = {} THEN None
    ELSE LET i == CHOOSE i \in CardsOfWord(d, word) : TRUE
         IN  Some([id |-> i, word |-> d.card[i].word, trans |-> d.card[i].trans])

card_add(d, word, trans, cid) ==
    IF ~card_exists(d, word)
    THEN LET card_id == Len(d.card) + 1
             d1 == [d EXCEPT !.card = Append(@, [word |-> word, trans |-> trans])]
             d2 == IF cid # 0
                   THEN [d1 EXCEPT !.card_collection = @ \cup {<<card_id, cid>>}]
                   ELSE d1
         IN  Ok(d2, card_id)
    ELSE LET card == card_load(d, word)[1]
             d1 == IF ~Contains(card.trans, trans)
                   THEN [d EXCEPT !.card[card.id].trans = card.trans \o trans]
                   ELSE d
             d2 == IF cid # 0 /\ <<card.id, cid>> \notin d1.card_collection
                   THEN [d1 EXCEPT !.card_collection = @ \cup {<<card.id, cid>>}]
                   ELSE d1
         IN  Ok(d2, card.id)

\* The cards of a collection the user does not own yet, which the loop of
\* collection_import inserts one by one.
ToImport(d, uid, cid) ==
    {i \in CardIds(d) : <<i, cid>> \in d.card_collection /\ <<uid, i>> \notin DOMAIN d.user_card}

NewUserCard(trans) == [trans |-> trans, last_study |-> 0, score |-> 0]

\* collection_import made to insert or reset every card of the collection.
collection_import_resets(d, uid, cid) ==
    LET new == {i \in CardIds(d) : <<i, cid>> \in d.card_collection}
    IN  IF new # {} /\ uid \notin DOMAIN d.users
        THEN Raise(d)
        ELSE Ok([d EXCEPT !.user_card =
                    [k \in (DOMAIN @) \cup {<<uid, i>> : i \in new} |->
                        IF k[1] = uid /\ k[2] \in new THEN NewUserCard(d.card[k[2]].trans)
                        ELSE @[k]]],
                Cardinality(ToImport(d, uid, cid)))

collection_import(d, uid, cid) ==
    LET new == ToImport(d, uid, cid)
    IN  IF new # {} /\ uid \notin DOMAIN d.users
        THEN Raise(d)   \* user_card.user_id REFERENCES users(id)
        ELSE Ok([d EXCEPT !.user_card =
                    [k \in (DOMAIN @) \cup {<<uid, i>> : i \in new} |->
                        IF k \in DOMAIN @ THEN @[k]
                        ELSE NewUserCard(d.card[k[2]].trans)]],
                Cardinality(new))

user_load(d, uid) ==
    IF uid \in DOMAIN d.users
    THEN Some([id |-> uid, score |-> d.users[uid].score, level |-> d.users[uid].level])
    ELSE None

\* INSERT INTO users (id): score and level take the column defaults.
NewUser == [score |-> 0, level |-> 0]

\* INSERT OR REPLACE in place of the guarded INSERT.
user_ensure_replaces(d, uid) ==
    Ok([d EXCEPT !.users = Put(@, uid, NewUser)], None)

user_ensure(d, uid) ==
    IF Cardinality({u \in DOMAIN d.users : u = uid}) = 0
    THEN Ok([d EXCEPT !.users = Put(@, uid, NewUser)], None)
    ELSE Ok(d, None)

user_card_count(d, uid) == Cardinality({k \in DOMAIN d.user_card : k[1] = uid})

UserCardsOfWord(d, uid, word) ==
    {k \in DOMAIN d.user_card : k[1] = uid /\ k[2] \in CardsOfWord(d, word)}

user_card_exists(d, uid, word) == Cardinality(UserCardsOfWord(d, uid, word)) > 0

\* A user_card row joined with its card's word.
UserCardRow(d, k) ==
    [user_id |-> k[1], card_id |-> k[2], trans |-> d.user_card[k].trans,
     last_study |-> d.user_card[k].last_study, score |-> d.user_card[k].score,
     word |-> d.card[k[2]].word]

user_card_load(d, uid, word) ==
    IF UserCardsOfWord(d, uid, word) = {} THEN None
    ELSE Some(UserCardRow(d, CHOOSE k \in UserCardsOfWord(d, uid, word) : TRUE))

\* user_card_add made to store the translation in every user's card of the
\* word.
user_card_add_for_everyone(d, uid, word, trans) ==
    LET added == card_add(d, word, trans, 0)
        card_id == added.ret
    IN  IF  uid \notin DOMAIN d.users \/ <<uid, card_id>> \in DOMAIN d.user_card
        THEN Raise(d)
        ELSE Ok([added.db EXCEPT !.user_card =
                    [k \in (DOMAIN @) \cup {<<uid, card_id>>} |->
                        IF k[2] = card_id
                        THEN IF k[1] = uid THEN NewUserCard(trans)
                             ELSE [@[k] EXCEPT !.trans = trans]
                        ELSE @[k]]],
                None)

user_card_add(d, uid, word, trans) ==
    LET added == card_add(d, word, trans, 0)
        card_id == added.ret
    IN  IF  uid \notin DOMAIN d.users \/ <<uid, card_id>> \in DOMAIN d.user_card
        THEN Raise(d)   \* foreign key users(id); primary key (user_id, card_id)
        ELSE Ok([added.db EXCEPT !.user_card = Put(@, <<uid, card_id>>, NewUserCard(trans))],
                None)

\* user_card_delete made to remove every user card of the user.
user_card_delete_removes_all(d, uid, word) ==
    LET gone == {k \in DOMAIN d.user_card : k[1] = uid}
    IN  Ok([d EXCEPT !.user_card = Drop(@, gone)], Cardinality(gone))

user_card_delete(d, uid, word) ==
    LET gone == UserCardsOfWord(d, uid, word)
    IN  Ok([d EXCEPT !.user_card = Drop(@, gone)], Cardinality(gone))

\* user_card_delete_all made to forget the user in its WHERE clause.
user_card_delete_all_of_everyone(d, uid) ==
    LET gone == {k \in DOMAIN d.user_card : k[1] = uid}
    IN  Ok([d EXCEPT !.user_card = Drop(@, DOMAIN d.user_card)], Cardinality(gone))

user_card_delete_all(d, uid) ==
    LET gone == {k \in DOMAIN d.user_card : k[1] = uid}
    IN  Ok([d EXCEPT !.user_card = Drop(@, gone)], Cardinality(gone))

\* UPDATE user_card without the card in its WHERE: last_study is set in
\* every card of the user.
user_card_study_stamps_every_card(d, t, uid, cid, success) ==
    LET k == <<uid, cid>>
        uc_score == Max(0, d.user_card[k].score + (IF success THEN 1 ELSE -1))
        user == user_load(d, uid)[1]
        score == user.score + (IF success THEN 1 ELSE 0)
        level == calc_level(user)
    IN  IF k \notin DOMAIN d.user_card THEN Raise(d)
        ELSE Ok([d EXCEPT !.user_card =
                            [x \in DOMAIN @ |->
                               IF x = k THEN [@[x] EXCEPT !.score = uc_score, !.last_study = t]
                               ELSE IF x[1] = uid THEN [@[x] EXCEPT !.last_study = t]
                               ELSE @[x]],
                          !.users[uid] = [score |-> score, level |-> level]],
                IF level > user.level THEN Some(level) ELSE None)

user_card_study_user_score_decremented(d, t, uid, cid, success) ==
    LET k == <<uid, cid>>
        uc_score == Max(0, d.user_card[k].score + (IF success THEN 1 ELSE -1))
        user == user_load(d, uid)[1]
        score == user.score + (IF success THEN 1 ELSE -1)
        level == calc_level(user)
    IN  IF k \notin DOMAIN d.user_card THEN Raise(d)
        ELSE Ok([d EXCEPT !.user_card[k].score = uc_score,
                          !.user_card[k].last_study = t,
                          !.users[uid] = [score |-> score, level |-> level]],
                IF level > user.level THEN Some(level) ELSE None)

user_card_study_no_floor(d, t, uid, cid, success) ==
    LET k == <<uid, cid>>
        uc_score == d.user_card[k].score + (IF success THEN 1 ELSE -1)
        user == user_load(d, uid)[1]
        score == user.score + (IF success THEN 1 ELSE 0)
        level == calc_level(user)
    IN  IF k \notin DOMAIN d.user_card THEN Raise(d)
        ELSE Ok([d EXCEPT !.user_card[k].score = uc_score,
                          !.user_card[k].last_study = t,
                          !.users[uid] = [score |-> score, level |-> level]],
                IF level > user.level THEN Some(level) ELSE None)

\* t is datetime.now().  query_single raises when the user does not own the
\* card; an owned card's user exists (user_card.user_id REFERENCES users).
\* The level is calc_level() of the user as loaded, before the new score is
\* stored.
user_card_study(d, t, uid, cid, success) ==
    LET k == <<uid, cid>>
        uc_score == Max(0, d.user_card[k].score + (IF success THEN 1 ELSE -1))
        user == user_load(d, uid)[1]
        score == user.score + (IF success THEN 1 ELSE 0)
        level == calc_level(user)
    IN  IF k \notin DOMAIN d.user_card THEN Raise(d)
        ELSE Ok([d EXCEPT !.user_card[k].score = uc_score,
                          !.user_card[k].last_study = t,
                          !.users[uid] = [score |-> score, level |-> level]],
                IF level > user.level THEN Some(level) ELSE None)

user_can_study_off_by_one(d, uid) == user_card_count(d, uid) >= 4

user_can_study(d, uid) == user_card_count(d, uid) > 4

\* ORDER BY c.word: the rows of a set of user_card keys, sorted by word.
WordKey(d, k) == d.card[k[2]].word[1].l

RECURSIVE SortedRows(_, _)
SortedRows(d, S) ==
    IF S = {} THEN <<>>
    ELSE LET m == CHOOSE k \in S : \A j \in S : WordKey(d, k) <= WordKey(d, j)
         IN  <<UserCardRow(d, m)>> \o SortedRows(d, S \ {m})

user_card_list(d, uid) == SortedRows(d, {k \in DOMAIN d.user_card : k[1] = uid})

\* Exact fractions [n, d] with d > 0, for the float arithmetic of the weights.
RECURSIVE Gcd(_, _)
Gcd(a, b) == IF b = 0 THEN a ELSE Gcd(b, a % b)
Abs(a) == IF a < 0 THEN 0 - a ELSE a
Frac(n, d) ==
    LET g == Gcd(Abs(n), d) IN [n |-> n \div g, d |-> d \div g]
FracAdd(a, b) ==
    LET l == (a.d \div Gcd(a.d, b.d)) * b.d
    IN  Frac(a.n * (l \div a.d) + b.n * (l \div b.d), l)
\* a / b for b > 0.
FracDiv(a, b) ==
    LET g == Gcd(b.d, a.d)
    IN  Frac(a.n * (b.d \div g), (a.d \div g) * b.n)
RECURSIVE FracSum(_)
FracSum(fs) == IF fs = <<>> THEN [n |-> 0, d |-> 1] ELSE FracAdd(Head(fs), FracSum(Tail(fs)))

\* The weight with the score multiplied in instead of divided out.
Weight_score_multiplied(t, uc) == Frac((t - uc.last_study) * (uc.score + 1), SecondsPerDay)

\* (now - uc.last_study.timestamp()) / 86400 / (uc.score + 1)
Weight(t, uc) == Frac(t - uc.last_study, SecondsPerDay * (uc.score + 1))

\* The elements of a set of numbers in increasing order.
RECURSIVE Ascending(_)
Ascending(S) ==
    IF S = {} THEN <<>>
    ELSE LET m == CHOOSE x \in S : \A y \in S : x <= y
         IN  <<m>> \o Ascending(S \ {m})

\* The draws of k distinct elements of S: any element first, then any
\* k - 1 of the others.  The caller tells the first entry from the rest and
\* shuffles what it shows, so the draws that differ only in the order of the
\* rest are given once, the rest in increasing order.
Draws(S, k) ==
    UNION {{<<x>> \o Ascending(T) : T \in {U \in SUBSET (S \ {x}) : Cardinality(U) = k - 1}} :
              x \in S}

\* t is time().  numpy.random.choice(a, size=k, replace=False, p=probs)
\* raises ValueError when a has fewer than k entries, when a probability is
\* negative, when the probabilities do not sum to 1, and when fewer than k
\* of them are non-zero; otherwise it returns k distinct entries of non-zero
\* probability, in any order.  ret is the set of the lists it can return.
\* weights, weight_sum and probs of user_card_choices.
Weights(t, user_cards) == [i \in 1..Len(user_cards) |-> Weight(t, user_cards[i])]
WeightSum(weights) ==
    LET sum == FracSum(weights) IN IF sum.n = 0 THEN [n |-> 1, d |-> 1] ELSE sum
Probs(t, user_cards) ==
    LET weights == Weights(t, user_cards)
        weight_sum == WeightSum(weights)
    IN  [i \in 1..Len(user_cards) |->
           IF weight_sum.n > 0 THEN FracDiv(weights[i], weight_sum)
           ELSE FracDiv([n |-> 0 - weights[i].n, d |-> weights[i].d],
                        [n |-> 0 - weight_sum.n, d |-> weight_sum.d])]

user_card_choices(d, t, uid, k) ==
    LET user_cards == user_card_list(d, uid)
        probs == Probs(t, user_cards)
        support == {i \in 1..Len(user_cards) : probs[i].n # 0}
    IN  IF \/ Len(user_cards) < k
           \/ \E i \in 1..Len(user_cards) : probs[i].n < 0
           \/ FracSum(probs) # [n |-> 1, d |-> 1]
           \/ Cardinality(support) < k
        THEN Raise(d)
        ELSE Ok(d, {[j \in 1..k |-> user_cards[is[j]]] : is \in Draws(support, k)})

\* --------------------------------------------------------------- the world
\* The ids of the users (the chat ids Telegram gives).
Users == {1, 2}
NWords == NDefaultCards + NExtraWords
\* The translation the default data gives word l, and a translation of the
\* user's own.
Tr(l) == Str(0 - l, 0)
Custom == Str(0 - (NWords + 1), 0)

\* ensure_default_data on empty tables: one collection, its words added by
\* card_add in the order of the file.
RECURSIVE LoadWords(_, _)
LoadWords(d, l) ==
    IF l > NDefaultCards THEN d
    ELSE LoadWords(card_add(d, Str(l, 0), Tr(l), DefaultCollection).db, l + 1)

EmptyDb == [card |-> <<>>, card_collection |-> {}, users |-> <<>>, user_card |-> <<>>]

ensure_default_data(d) == IF Len(d.card) = 0 THEN LoadWords(d, 1) ELSE d

\* What a call leaves in `last`.
Call(op, uid, args, pre, r) ==
    [op |-> op, uid |-> uid, args |-> args, pre |-> pre, ret |-> r.ret, ok |-> r.ok]

NoArgs == [none |-> TRUE]

\* The user's row and the card's row as a call finds them.
Pre(uid, cid) ==
    [user |-> user_load(db, uid),
     user_card |-> IF <<uid, cid>> \in DOMAIN db.user_card
                   THEN Some(db.user_card[<<uid, cid>>]) ELSE None]

Init ==
    /\ db = ensure_default_data(EmptyDb)
    /\ now = 1
    /\ chat = <<>>
    /\ last = Call("launch", 0, NoArgs, NoArgs, Ok(db, None))
    /\ tx = <<>>

\* ------------------------------------------- calls of the StudyManager
\* A call runs in its own transaction: when it raises the database is as
\* before.
Commit(r, call) ==
    /\ db' = IF r.ok THEN r.db ELSE db
    /\ last' = call
    /\ UNCHANGED <<now, chat, tx>>

UserEnsure(uid) ==
    LET r == user_ensure(db, uid)
    IN  Commit(r, Call("user_ensure", uid, NoArgs, NoArgs, r))

CollectionImport(uid, cid) ==
    LET r == collection_import(db, uid, cid)
    IN  Commit(r, Call("collection_import", uid, [cid |-> cid], NoArgs, r))

UserCardAdd(uid, word, trans) ==
    LET r == user_card_add(db, uid, word, trans)
    IN  Commit(r, Call("user_card_add", uid, [word |-> word, trans |-> trans], NoArgs, r))

UserCardDelete(uid, word) ==
    LET r == user_card_delete(db, uid, word)
    IN  Commit(r, Call("user_card_delete", uid, [word |-> word], NoArgs, r))

UserCardDeleteAll(uid) ==
    LET r == user_card_delete_all(db, uid)
    IN  Commit(r, Call("user_card_delete_all", uid, NoArgs, NoArgs, r))

UserCardStudy(uid, cid, success) ==
    LET r == user_card_study(db, now, uid, cid, success)
    IN  Commit(r, Call("user_card_study", uid, [cid |-> cid, success |-> success],
                       Pre(uid, cid), r))

UserCanStudy(uid) ==
    LET r == Ok(db, user_can_study(db, uid))
    IN  Commit(r, Call("user_can_study", uid, NoArgs, NoArgs, r))

\* The aggregate score stays within the bound of the specification.
Below(uid, max) == uid \in DOMAIN db.users => db.users[uid].score < max

\* ----------------------------------------- SpecStudy: one user studying
StudyCards == 1..2

NextStudy ==
    \/ UserEnsure(1)
    \/ CollectionImport(1, DefaultCollection)
    \/ \E cid \in StudyCards, success \in BOOLEAN :
          Below(1, MaxDeepScore) /\ UserCardStudy(1, cid, success)

SpecStudy == Init /\ [][NextStudy]_vars

\* --------------------------------- SpecSM: every call, for one user
\* The words the caller passes: a default word in another letter case and
\* the words no default card has.
TypedWords == {Str(1, 1)} \cup {Str(l, 0) : l \in (NDefaultCards + 1)..NWords}
TypedTrans(word) == {Custom}
SMCards == {1, NDefaultCards + 1}

NextSM ==
    \/ UserEnsure(1)
    \/ CollectionImport(1, DefaultCollection)
    \/ \E word \in TypedWords : \E trans \in TypedTrans(word) :
          UserCardAdd(1, word, trans)
    \/ \E word \in TypedWords : UserCardDelete(1, word)
    \/ UserCardDeleteAll(1)
    \/ \E cid \in SMCards, success \in BOOLEAN :
          Below(1, MaxScore) /\ UserCardStudy(1, cid, success)
    \/ UserCanStudy(1)

SpecSM == Init /\ [][NextSM]_vars

\* ------------------------------------ SpecUsers: several users studying
NextUsers ==
    \/ \E uid \in Users : UserEnsure(uid)
    \/ \E uid \in Users : CollectionImport(uid, DefaultCollection)
    \/ \E uid \in Users, success \in BOOLEAN :
          Below(uid, MaxUsersScore) /\ UserCardStudy(uid, 1, success)

SpecUsers == Init /\ [][NextUsers]_vars

\* ------------------------- SpecShared: several users on the same cards
\* Every user imports, adds and deletes cards; the users other than the
\* first give one correct answer on the first card.
NextShared ==
    \/ \E uid \in Users : UserEnsure(uid)
    \/ \E uid \in Users : CollectionImport(uid, DefaultCollection)
    \/ \E uid \in Users : \E word \in TypedWords : \E trans \in TypedTrans(word) :
          UserCardAdd(uid, word, trans)
    \/ \E uid \in Users : \E word \in TypedWords : UserCardDelete(uid, word)
    \/ \E uid \in Users : UserCardDeleteAll(uid)
    \/ \E uid \in Users \ {1} : Below(uid, 1) /\ UserCardStudy(uid, 1, TRUE)

SpecShared == Init /\ [][NextShared]_vars

\* ------------------- SpecRace: two study submissions running side by side
\* Each submission runs user_card_study in a transaction of its own
\* (`with db.connect()`), statement by statement.  The database is
\* PostgreSQL at its default isolation level: a SELECT reads what is
\* committed, an UPDATE waits while another open transaction has written
\* the same row, and the written rows show to the others at commit.
Submissions == 1..2

\* The submission's position in user_card_study and what it has read and
\* written so far.
NewTx(uid, cid, success, t) ==
    [uid |-> uid, cid |-> cid, success |-> success, now |-> t, pc |-> "card_load",
     user_card |-> None, card_set |-> None, user |-> None, user_set |-> None,
     ret |-> None, order |-> 0]

Open(p) == p \in DOMAIN tx /\ tx[p].pc # "done"
At(p, pc) == p \in DOMAIN tx /\ tx[p].pc = pc

\* Another open transaction has written the user_card row / the users row.
CardLocked(p) ==
    \E q \in DOMAIN tx : q # p /\ tx[q].pc # "done" /\ tx[q].card_set # None
                           /\ tx[q].uid = tx[p].uid /\ tx[q].cid = tx[p].cid
UserLocked(p) ==
    \E q \in DOMAIN tx : q # p /\ tx[q].pc # "done" /\ tx[q].user_set # None
                           /\ tx[q].uid = tx[p].uid

\* UPDATE user_card SET score = score + 1 in place of the value computed
\* from the row loaded before.
study_card_score_in_sql(d, t) ==
    Max(0, d.user_card[<<t.uid, t.cid>>].score + (IF t.success THEN 1 ELSE -1))

\* score = max(0, user_card.score + (1 if success else -1))
study_card_score(d, t) ==
    Max(0, t.user_card[1].score + (IF t.success THEN 1 ELSE -1))

\* now = datetime.now(), then the call proceeds to its first query.
StudyBegin(p, uid, cid, success) ==
    /\ p \notin DOMAIN tx
    /\ <<uid, cid>> \in DOMAIN db.user_card
    /\ tx' = Put(tx, p, NewTx(uid, cid, success, now))
    /\ UNCHANGED <<db, now, chat, last>>

\* SELECT * FROM user_card WHERE user_id = uid AND card_id = cid
StudyCardLoad(p) ==
    /\ At(p, "card_load")
    /\ tx' = [tx EXCEPT ![p].user_card = Some(db.user_card[<<tx[p].uid, tx[p].cid>>]),
                        ![p].pc = "card_update"]
    /\ UNCHANGED <<db, now, chat, last>>

\* UPDATE user_card SET score, last_study
StudyCardUpdate(p) ==
    /\ At(p, "card_update")
    /\ ~CardLocked(p)
    /\ tx' = [tx EXCEPT ![p].card_set = Some([score |-> study_card_score(db, tx[p]),
                                              last_study |-> tx[p].now]),
                        ![p].pc = "user_load"]
    /\ UNCHANGED <<db, now, chat, last>>

\* user = self.user_load(uid)
StudyUserLoad(p) ==
    /\ At(p, "user_load")
    /\ tx' = [tx EXCEPT ![p].user = user_load(db, tx[p].uid),
                        ![p].pc = "user_update"]
    /\ UNCHANGED <<db, now, chat, last>>

\* UPDATE users SET score, level; the level returned when it is higher.
StudyUserUpdate(p) ==
    /\ At(p, "user_update")
    /\ ~UserLocked(p)
    /\ LET user == tx[p].user[1]
           score == user.score + (IF tx[p].success THEN 1 ELSE 0)
           level == calc_level(user)
       IN  tx' = [tx EXCEPT ![p].user_set = Some([score |-> score, level |-> level]),
                           ![p].ret = IF level > user.level THEN Some(level) ELSE None,
                           ![p].pc = "commit"]
    /\ UNCHANGED <<db, now, chat, last>>

\* Leaving `with db.connect()`: the two written rows are committed.
StudyCommit(p) ==
    /\ At(p, "commit")
    /\ LET t == tx[p]
           k == <<t.uid, t.cid>>
       IN  /\ db' = [db EXCEPT !.user_card[k].score = t.card_set[1].score,
                               !.user_card[k].last_study = t.card_set[1].last_study,
                               !.users[t.uid] = t.user_set[1]]
           /\ last' = Call("user_card_study", t.uid, [cid |-> t.cid, success |-> t.success],
                           [user |-> t.user, user_card |-> t.user_card], Ok(db', t.ret))
    /\ tx' = [tx EXCEPT ![p].pc = "done",
                        ![p].order = 1 + Cardinality({q \in DOMAIN tx : tx[q].pc = "done"})]
    /\ UNCHANGED <<now, chat>>

\* The user imports the collection and answers alone before the two
\* submissions start.
NextRace ==
    \/ tx = <<>> /\ UserEnsure(1)
    \/ tx = <<>> /\ CollectionImport(1, DefaultCollection)
    \/ \E cid \in StudyCards, success \in BOOLEAN :
          tx = <<>> /\ Below(1, MaxScore) /\ UserCardStudy(1, cid, success)
    \/ \E p \in Submissions, cid \in StudyCards, success \in BOOLEAN :
          StudyBegin(p, 1, cid, success)
    \/ \E p \in Submissions : StudyCardLoad(p)
    \/ \E p \in Submissions : StudyCardUpdate(p)
    \/ \E p \in Submissions : StudyUserLoad(p)
    \/ \E p \in Submissions : StudyUserUpdate(p)
    \/ \E p \in Submissions : StudyCommit(p)

SpecRace == Init /\ [][NextRace]_vars

\* ------------------------------- SpecCards: adding cards in either case
\* card_add and user_card_add with the first default word and the words no
\* default card has, each in both letter cases.
CardWords == {Str(l, c) : l \in {1} \cup ((NDefaultCards + 1)..NWords), c \in {0, 1}}

CardAdd(word, trans, cid) ==
    LET r == card_add(db, word, trans, cid)
    IN  Commit(r, Call("card_add", 0, [word |-> word, trans |-> trans, cid |-> cid], NoArgs, r))

NextCards ==
    \/ UserEnsure(1)
    \/ \E word \in CardWords, cid \in {0, DefaultCollection} : CardAdd(word, Custom, cid)
    \/ \E word \in CardWords : UserCardAdd(1, word, Tr(1))

SpecCards == Init /\ [][NextCards]_vars

\* --------------------------------- SpecLevel: calc_level on its own
\* A User object of any score in the range.
InitLevel ==
    /\ \E score \in 0..MaxLevelScore :
          db = [EmptyDb EXCEPT !.users = Put(@, 1, [score |-> score, level |-> 0])]
    /\ now = 1
    /\ chat = <<>>
    /\ last = Call("launch", 0, NoArgs, NoArgs, Ok(db, None))
    /\ tx = <<>>

CalcLevel(uid) ==
    /\ last.op = "launch"
    /\ last' = Call("calc_level", uid, NoArgs, NoArgs, Ok(db, calc_level(user_load(db, uid)[1])))
    /\ UNCHANGED <<db, now, chat, tx>>

NextLevel == \E uid \in DOMAIN db.users : CalcLevel(uid)

SpecLevel == InitLevel /\ [][NextLevel]_vars

\* ------------------------------------------ user_card_choices on any cards
\* user_card_choices applied to the cards of one user.  The user owns the
\* first n cards of the default collection, n from k up; each card was
\* studied never (last_study 0, score 0), at an earlier reading of the
\* clock, or within the resolution of this reading (last_study = now), and
\* a studied card has any score of ChoiceScores.  The user's score is the
\* number of correct answers that give these card scores.
ChoiceScores == {0, MaxScore}
ChoiceTimes == {0, MaxTime - 1, MaxTime}
ChoiceRows == {r \in [score : ChoiceScores, last_study : ChoiceTimes] :
                 r.score > 0 => r.last_study > 0}

RECURSIVE SumScores(_, _)
SumScores(rows, n) == IF n = 0 THEN 0 ELSE rows[n].score + SumScores(rows, n - 1)

InitChoices ==
    /\ now = MaxTime
    /\ \E n \in K..NDefaultCards :
         \E rows \in [1..n -> ChoiceRows] :
            LET score == SumScores(rows, n)
                studied == \E i \in 1..n : rows[i].last_study > 0
                user == [score |-> score,
                         level |-> IF studied THEN calc_level([score |-> score]) ELSE 0]
            IN  db = [ensure_default_data(EmptyDb) EXCEPT
                        !.users = Put(@, 1, user),
                        !.user_card = [key \in {1} \X (1..n) |->
                                         [trans |-> Tr(key[2]),
                                          last_study |-> rows[key[2]].last_study,
                                          score |-> rows[key[2]].score]]]
    /\ chat = <<>>
    /\ last = Call("launch", 0, NoArgs, NoArgs, Ok(db, None))
    /\ tx = <<>>

UserCardChoices(uid) ==
    /\ last.op = "launch"
    /\ last' = Call("user_card_choices", uid, [k |-> K], NoArgs, user_card_choices(db, now, uid, K))
    /\ UNCHANGED <<db, now, chat, tx>>

NextChoices == \E uid \in DOMAIN db.users : UserCardChoices(uid)

SpecChoices == InitChoices /\ [][NextChoices]_vars

\* ---------------------------------------------------------- cards_bot.py
\* The StateMemoryStorage of the bot, keyed by chat id: set_state creates
\* the entry or changes its state and keeps its data, delete_state removes
\* the entry with its data, add_data and reset_data change the data of an
\* existing entry.
set_state(c, uid, state) ==
    IF uid \in DOMAIN c THEN [c EXCEPT ![uid].state = state]
    ELSE Put(c, uid, [state |-> state, data |-> <<>>])
\* add_data made to keep the value a key already has (dict.setdefault).
add_data_keeps_existing(c, uid, key, value) ==
    IF uid \in DOMAIN c /\ key \notin DOMAIN c[uid].data
    THEN [c EXCEPT ![uid].data = Put(@, key, value)] ELSE c
add_data(c, uid, key, value) ==
    IF uid \in DOMAIN c THEN [c EXCEPT ![uid].data = Put(@, key, value)] ELSE c
\* delete_state made to empty the storage.
delete_state_of_every_chat(c, uid) == Drop(c, DOMAIN c)
delete_state(c, uid) == Drop(c, {uid})
reset_data(c, uid) == IF uid \in DOMAIN c THEN [c EXCEPT ![uid].data = <<>>] ELSE c
get_state(c, uid) == IF uid \in DOMAIN c THEN Some(c[uid].state) ELSE None
retrieve_data(c, uid) == IF uid \in DOMAIN c THEN c[uid].data ELSE <<>>
\* dict.get
Get(data, key) == IF key \in DOMAIN data THEN Some(data[key]) ELSE None

\* The literal 'ALL', and the texts re.fullmatch(r"[a-zA-Z' -]+", word)
\* accepts: one part (no comma) of latin letters.
ALL == Str(0, 1)
WordMatches(word) == Len(word) = 1 /\ word[1].l >= 0

\* What a handler leaves: the database, the storage, the messages sent
\* (their keys in bot_strings.json) with what they show, and ok = FALSE
\* when it raised (its transaction is then rolled back).
H(d, c, sent, show) == [db |-> d, chat |-> c, sent |-> sent, show |-> show, ok |-> TRUE]
HRaise(d, c, sent) == [db |-> d, chat |-> c, sent |-> sent, show |-> NoArgs, ok |-> FALSE]

\* The labels of a keyboard with how often each occurs (the order, which
\* shuffle() makes random, is not kept).
BagOf(labels) ==
    [x \in {labels[i] : i \in DOMAIN labels} |->
        Cardinality({i \in DOMAIN labels : labels[i] = x})]

handle_start(d, c, uid) == H(user_ensure(d, uid).db, c, <<"start">>, NoArgs)

handle_manage(d, c, uid) ==
    H(d, c, <<"manage">>, [card_count |-> user_card_count(d, uid)])

handle_add(d, c, uid) == H(d, set_state(c, uid, "add_word"), <<"add_word">>, NoArgs)

\* handle_add_word made to end the conversation on a rejected text.
handle_add_word_invalid_ends(d, c, uid, word) ==
    IF ~WordMatches(word) THEN H(d, delete_state(c, uid), <<"word_error">>, NoArgs)
    ELSE IF user_card_load(d, uid, word) # None
    THEN H(d, c, <<"user_card_exists">>, [word |-> user_card_load(d, uid, word)[1].word])
    ELSE IF card_load(d, word) # None
    THEN LET card == card_load(d, word)[1]
         IN  H(d, add_data(set_state(c, uid, "add_trans"), uid, "word", card.word),
               <<"card_exists">>, [word |-> card.word, trans |-> card.trans])
    ELSE H(d, add_data(set_state(c, uid, "add_trans"), uid, "word", word),
           <<"add_trans">>, NoArgs)

\* handle_add_word made to carry the typed text also when a card exists.
handle_add_word_carries_typed(d, c, uid, word) ==
    IF ~WordMatches(word) THEN H(d, c, <<"word_error">>, NoArgs)
    ELSE IF user_card_load(d, uid, word) # None
    THEN H(d, c, <<"user_card_exists">>, [word |-> user_card_load(d, uid, word)[1].word])
    ELSE IF card_load(d, word) # None
    THEN LET card == card_load(d, word)[1]
         IN  H(d, add_data(set_state(c, uid, "add_trans"), uid, "word", word),
               <<"card_exists">>, [word |-> card.word, trans |-> card.trans])
    ELSE H(d, add_data(set_state(c, uid, "add_trans"), uid, "word", word),
           <<"add_trans">>, NoArgs)

handle_add_word(d, c, uid, word) ==
    IF ~WordMatches(word) THEN H(d, c, <<"word_error">>, NoArgs)
    ELSE IF user_card_load(d, uid, word) # None
    THEN H(d, c, <<"user_card_exists">>, [word |-> user_card_load(d, uid, word)[1].word])
    ELSE IF card_load(d, word) # None
    THEN LET card == card_load(d, word)[1]
         IN  H(d, add_data(set_state(c, uid, "add_trans"), uid, "word", card.word),
               <<"card_exists">>, [word |-> card.word, trans |-> card.trans])
    ELSE H(d, add_data(set_state(c, uid, "add_trans"), uid, "word", word),
           <<"add_trans">>, NoArgs)

handle_add_trans(d, c, uid, trans) ==
    LET word == Get(retrieve_data(c, uid), "word")
        r == IF word = None THEN Raise(d) ELSE user_card_add(d, uid, word[1], trans)
    IN  IF ~r.ok THEN HRaise(d, c, <<>>)
        ELSE H(r.db, reset_data(delete_state(c, uid), uid), <<"user_card_added", "manage">>,
               [word |-> word[1], trans |-> trans, card_count |-> user_card_count(r.db, uid)])

\* /delete made to remove the user's cards at once, in whatever state.
handle_delete_at_once(d, c, uid) ==
    H(user_card_delete_all(d, uid).db, c, <<"user_card_deleted_all">>, NoArgs)

handle_delete(d, c, uid) == H(d, set_state(c, uid, "delete_word"), <<"delete_word">>, NoArgs)

\* handle_delete_word made to end the conversation on a miss.
handle_delete_word_miss_ends(d, c, uid, word) ==
    IF word = ALL
    THEN H(user_card_delete_all(d, uid).db, delete_state(c, uid),
           <<"user_card_deleted_all", "manage">>, [card_count |-> 0])
    ELSE IF user_card_exists(d, uid, word)
    THEN LET r == user_card_delete(d, uid, word)
         IN  H(r.db, delete_state(c, uid), <<"user_card_deleted", "manage">>,
               [word |-> word, card_count |-> user_card_count(r.db, uid)])
    ELSE H(d, delete_state(c, uid), <<"user_card_missing">>, [word |-> word])

handle_delete_word(d, c, uid, word) ==
    IF word = ALL
    THEN H(user_card_delete_all(d, uid).db, delete_state(c, uid),
           <<"user_card_deleted_all", "manage">>, [card_count |-> 0])
    ELSE IF user_card_exists(d, uid, word)
    THEN LET r == user_card_delete(d, uid, word)
         IN  H(r.db, delete_state(c, uid), <<"user_card_deleted", "manage">>,
               [word |-> word, card_count |-> user_card_count(r.db, uid)])
    ELSE H(d, c, <<"user_card_missing">>, [word |-> word])

handle_list(d, c, uid) ==
    H(d, c, <<"list">>, [card_count |-> Len(user_card_list(d, uid))])

handle_import(d, c, uid) == H(d, c, <<"import">>, NoArgs)

handle_import_collection(d, c, uid) ==
    LET cid == Get(retrieve_data(c, uid), "cid")
        r == IF cid = None THEN Ok(d, 0) ELSE collection_import(d, uid, cid[1])
    IN  IF ~r.ok THEN HRaise(d, c, <<>>)
        ELSE H(r.db, reset_data(delete_state(c, uid), uid), <<"user_cards_imported">>,
               [added_count |-> r.ret, card_count |-> user_card_count(r.db, uid)])

\* The round with the translation stored as the answer in both directions.
StudyRound_answer_is_translation(d, c, uid, user_cards, lng) ==
    LET user_card == user_cards[1]
        buttons == [i \in DOMAIN user_cards |->
                      IF lng = "en" THEN user_cards[i].trans ELSE user_cards[i].word]
        word == IF lng = "en" THEN user_card.word ELSE user_card.trans
    IN  H(d,
          add_data(add_data(set_state(c, uid, "study_choice"), uid, "cid", user_card.card_id),
                   uid, "answer", user_card.trans),
          <<IF lng = "en" THEN "study_choice_en" ELSE "study_choice_ru">>,
          [word |-> word, buttons |-> BagOf(buttons), lng |-> lng,
           user_cards |-> {user_cards[i].card_id : i \in DOMAIN user_cards}])

\* user_cards is what user_card_choices returned and lng what
\* choice(['en', 'ru']) returned.
StudyRound(d, c, uid, user_cards, lng) ==
    LET user_card == user_cards[1]
        buttons == [i \in DOMAIN user_cards |->
                      IF lng = "en" THEN user_cards[i].trans ELSE user_cards[i].word]
        word == IF lng = "en" THEN user_card.word ELSE user_card.trans
        answer == IF lng = "en" THEN user_card.trans ELSE user_card.word
    IN  H(d,
          add_data(add_data(set_state(c, uid, "study_choice"), uid, "cid", user_card.card_id),
                   uid, "answer", answer),
          <<IF lng = "en" THEN "study_choice_en" ELSE "study_choice_ru">>,
          [word |-> word, buttons |-> BagOf(buttons), lng |-> lng,
           user_cards |-> {user_cards[i].card_id : i \in DOMAIN user_cards}])

\* What the random calls of a round can give: the list user_card_choices
\* returns (ok = FALSE: it raises) and the language choice(['en', 'ru'])
\* returns.  Nothing is drawn when the user cannot study.
Rounds(d, t, uid) ==
    IF ~user_can_study(d, uid) THEN {[ok |-> TRUE, user_cards |-> <<>>, lng |-> "en"]}
    ELSE LET r == user_card_choices(d, t, uid, K)
         IN  IF ~r.ok THEN {[ok |-> FALSE, user_cards |-> <<>>, lng |-> "en"]}
             ELSE {[ok |-> TRUE, user_cards |-> ucs, lng |-> lng] :
                      ucs \in r.ret, lng \in {"en", "ru"}}

\* handle_study made to forget the conversation when it refuses a round.
handle_study_refusal_resets(d, c, uid, rnd) ==
    IF user_can_study(d, uid)
    THEN IF ~rnd.ok THEN HRaise(d, c, <<>>)
         ELSE StudyRound(d, c, uid, rnd.user_cards, rnd.lng)
    ELSE H(d, delete_state(c, uid), <<"study_not_enough">>, NoArgs)

handle_study(d, c, uid, rnd) ==
    IF user_can_study(d, uid)
    THEN IF ~rnd.ok THEN HRaise(d, c, <<>>)
         ELSE StudyRound(d, c, uid, rnd.user_cards, rnd.lng)
    ELSE H(d, c, <<"study_not_enough">>, NoArgs)

\* handle_study_choice made to keep the round open after a wrong answer.
handle_study_choice_wrong_keeps_state(d, c, t, uid, text) ==
    LET cid == Get(retrieve_data(c, uid), "cid")
        answer == Get(retrieve_data(c, uid), "answer")
    IN  IF answer = None \/ cid = None THEN HRaise(d, c, <<>>)
        ELSE LET success == Lower(text) = Lower(answer[1])
                 first == IF success THEN "study_success" ELSE "study_fail"
                 r == user_card_study(d, t, uid, cid[1], success)
             IN  IF ~r.ok THEN HRaise(d, c, <<first>>)
                 ELSE H(r.db, IF success THEN reset_data(delete_state(c, uid), uid) ELSE c,
                        <<first>> \o (IF r.ret # None /\ r.ret[1] # 0 THEN <<"level_up">> ELSE <<>>)
                            \o <<"study_continue">>,
                        [success |-> success, level |-> r.ret, cid |-> cid[1]])

handle_study_choice(d, c, t, uid, text) ==
    LET cid == Get(retrieve_data(c, uid), "cid")
        answer == Get(retrieve_data(c, uid), "answer")
    IN  IF answer = None \/ cid = None THEN HRaise(d, c, <<>>)
        ELSE LET success == Lower(text) = Lower(answer[1])
                 first == IF success THEN "study_success" ELSE "study_fail"
                 r == user_card_study(d, t, uid, cid[1], success)
             IN  IF ~r.ok THEN HRaise(d, c, <<first>>)
                 ELSE H(r.db, reset_data(delete_state(c, uid), uid),
                        <<first>> \o (IF r.ret # None /\ r.ret[1] # 0 THEN <<"level_up">> ELSE <<>>)
                            \o <<"study_continue">>,
                        [success |-> success, level |-> r.ret, cid |-> cid[1]])

handle_stats(d, c, uid) ==
    IF user_load(d, uid) = None THEN HRaise(d, c, <<>>)
    ELSE H(d, c, <<"stats">>, [level |-> user_load(d, uid)[1].level,
                               score |-> user_load(d, uid)[1].score])

\* -------------------------------------------- Spec: the bot, one user
\* A handler runs for a message or a pressed button of chat uid; a command
\* and the button of the same name run the same handler.
BotUsers == {1}

\* The handler's effect h; reads is 1 when the handler read the clock,
\* which then shows a later time to the next reader.
Run(op, uid, args, h, reads) ==
    /\ now + reads <= MaxTime
    /\ db' = h.db
    /\ chat' = h.chat
    /\ last' = Call(op, uid, args, NoArgs,
                    [ret |-> [sent |-> h.sent, show |-> h.show], ok |-> h.ok])
    /\ now' = now + reads
    /\ UNCHANGED tx

\* The handler of the state filter that matches.
InState(uid, state) == get_state(chat, uid) = Some(state)

HandleStart(uid) == Run("handle_start", uid, NoArgs, handle_start(db, chat, uid), 0)
HandleManage(uid) == Run("handle_manage", uid, NoArgs, handle_manage(db, chat, uid), 0)
HandleAdd(uid) == Run("handle_add", uid, NoArgs, handle_add(db, chat, uid), 0)
HandleDelete(uid) == Run("handle_delete", uid, NoArgs, handle_delete(db, chat, uid), 0)
HandleList(uid) == Run("handle_list", uid, NoArgs, handle_list(db, chat, uid), 0)
HandleImport(uid) == Run("handle_import", uid, NoArgs, handle_import(db, chat, uid), 0)
HandleStats(uid) == Run("handle_stats", uid, NoArgs, handle_stats(db, chat, uid), 0)

HandleStudy(uid) ==
    \E rnd \in Rounds(db, now, uid) :
        Run("handle_study", uid, NoArgs, handle_study(db, chat, uid, rnd),
            IF user_can_study(db, uid) THEN 1 ELSE 0)

\* handle_callback_query for the button 'import:<cid>'.
HandleCallbackImport(uid, cid) ==
    Run("handle_callback_query", uid, [cid |-> cid],
        handle_import_collection(
            db, add_data(set_state(chat, uid, "import_collection"), uid, "cid", cid), uid),
        0)

HandleAddWord(uid, text) ==
    /\ InState(uid, "add_word")
    /\ Run("handle_add_word", uid, [text |-> text], handle_add_word(db, chat, uid, text), 0)

HandleAddTrans(uid, text) ==
    /\ InState(uid, "add_trans")
    /\ Run("handle_add_trans", uid, [text |-> text], handle_add_trans(db, chat, uid, text), 0)

HandleDeleteWord(uid, text) ==
    /\ InState(uid, "delete_word")
    /\ Run("handle_delete_word", uid, [text |-> text], handle_delete_word(db, chat, uid, text), 0)

HandleImportCollection(uid, text) ==
    /\ InState(uid, "import_collection")
    /\ Run("handle_import_collection", uid, [text |-> text],
           handle_import_collection(db, chat, uid), 0)

HandleStudyChoice(uid, text) ==
    /\ InState(uid, "study_choice")
    /\ Run("handle_study_choice", uid, [text |-> text],
           handle_study_choice(db, chat, now, uid, text), 1)

\* The texts the user sends in each state: words (known in another letter
\* case, new, and two the pattern rejects: cyrillic letters, and two words
\* with a comma between them), 'ALL', a translation of the
\* user's own, and answers (the expected one, a word in another letter case
\* and a wrong one).
TwoWords == Str(1, 0) \o Str(2, 0)
WordTexts == TypedWords \cup {Custom, TwoWords}
TransTexts == {Custom}
DeleteTexts == TypedWords \cup {ALL}
AnswerTexts(uid) ==
    {Str(1, 1), Custom}
        \cup {retrieve_data(chat, uid)[key] : key \in {"answer"} \cap DOMAIN retrieve_data(chat, uid)}

Next ==
    \/ \E uid \in BotUsers : HandleStart(uid)
    \/ \E uid \in BotUsers : HandleManage(uid)
    \/ \E uid \in BotUsers : HandleAdd(uid)
    \/ \E uid \in BotUsers : HandleDelete(uid)
    \/ \E uid \in BotUsers : HandleList(uid)
    \/ \E uid \in BotUsers : HandleImport(uid)
    \/ \E uid \in BotUsers : HandleStats(uid)
    \/ \E uid \in BotUsers : HandleStudy(uid)
    \/ \E uid \in BotUsers : HandleCallbackImport(uid, DefaultCollection)
    \/ \E uid \in BotUsers : \E text \in WordTexts : HandleAddWord(uid, text)
    \/ \E uid \in BotUsers : \E text \in TransTexts : HandleAddTrans(uid, text)
    \/ \E uid \in BotUsers : \E text \in DeleteTexts : HandleDeleteWord(uid, text)
    \/ \E uid \in BotUsers : \E text \in TransTexts : HandleImportCollection(uid, text)
    \/ \E uid \in BotUsers : \E text \in AnswerTexts(uid) : HandleStudyChoice(uid, text)

Spec == Init /\ [][Next]_vars

\* ---------------------------------------------- SpecTwo: the bot, two users
\* The messages of two chats handled in any order: the first user manages
\* cards (add and delete conversations), the second studies; both start and
\* import.
NextTwo ==
    \/ \E uid \in Users : HandleStart(uid)
    \/ \E uid \in Users : HandleCallbackImport(uid, DefaultCollection)
    \/ HandleAdd(1)
    \/ \E text \in WordTexts : HandleAddWord(1, text)
    \/ \E text \in TransTexts : HandleAddTrans(1, text)
    \/ HandleDelete(1)
    \/ \E text \in DeleteTexts : HandleDeleteWord(1, text)
    \/ HandleStudy(2)
    \/ \E text \in AnswerTexts(2) : HandleStudyChoice(2, text)
    \/ HandleStats(2)

SpecTwo == Init /\ [][NextTwo]_vars

\* ------------------------------- SpecFault: the bot when the database fails
\* The database fails under a handler either at a statement of the
\* StudyManager call (execute) or at the commit on leaving
\* `with db.connect()`; the exception leaves the handler at that point and
\* the transaction is rolled back.
FaultAt == {"execute", "commit"}

\* Nothing precedes the `with` block but reading the data, and the state is
\* deleted after it.
handle_add_trans_fault(d, c, uid, trans, at) == HRaise(d, c, <<>>)

\* The messages, _manage_send_message and delete_state of the two deleting
\* branches are inside the `with` block, before its commit.
handle_delete_word_fault(d, c, uid, word, at) ==
    LET h == handle_delete_word(d, c, uid, word)
    IN  IF at = "commit"
        THEN [db |-> d, chat |-> h.chat, sent |-> h.sent, show |-> NoArgs, ok |-> FALSE]
        ELSE HRaise(d, c, <<>>)

\* The verdict is sent before the `with` block, level_up inside it, and the
\* state is deleted after it.
handle_study_choice_fault(d, c, t, uid, text, at) ==
    LET h == handle_study_choice(d, c, t, uid, text)
    IN  IF at = "commit" /\ h.ok
        THEN HRaise(d, c, SubSeq(h.sent, 1, Len(h.sent) - 1))
        ELSE HRaise(d, c, SubSeq(h.sent, 1, 1))

HandleAddTransFault(uid, text, at) ==
    /\ InState(uid, "add_trans")
    /\ Run("handle_add_trans", uid, [text |-> text, fault |-> at],
           handle_add_trans_fault(db, chat, uid, text, at), 0)

HandleDeleteWordFault(uid, text, at) ==
    /\ InState(uid, "delete_word")
    /\ Run("handle_delete_word", uid, [text |-> text, fault |-> at],
           handle_delete_word_fault(db, chat, uid, text, at), 0)

HandleStudyChoiceFault(uid, text, at) ==
    /\ InState(uid, "study_choice")
    /\ Run("handle_study_choice", uid, [text |-> text, fault |-> at],
           handle_study_choice_fault(db, chat, now, uid, text, at), 1)

NextFault ==
    \/ \E uid \in BotUsers : HandleStart(uid)
    \/ \E uid \in BotUsers : HandleCallbackImport(uid, DefaultCollection)
    \/ \E uid \in BotUsers : HandleAdd(uid)
    \/ \E uid \in BotUsers : \E text \in WordTexts : HandleAddWord(uid, text)
    \/ \E uid \in BotUsers : \E text \in TransTexts : HandleAddTrans(uid, text)
    \/ \E uid \in BotUsers : HandleDelete(uid)
    \/ \E uid \in BotUsers : \E text \in DeleteTexts : HandleDeleteWord(uid, text)
    \/ \E uid \in BotUsers : HandleStudy(uid)
    \/ \E uid \in BotUsers : \E text \in AnswerTexts(uid) : HandleStudyChoice(uid, text)
    \/ \E uid \in BotUsers : \E text \in TransTexts, at \in FaultAt :
          HandleAddTransFault(uid, text, at)
    \/ \E uid \in BotUsers : \E text \in DeleteTexts, at \in FaultAt :
          HandleDeleteWordFault(uid, text, at)
    \/ \E uid \in BotUsers : \E text \in AnswerTexts(uid), at \in FaultAt :
          HandleStudyChoiceFault(uid, text, at)

SpecFault == Init /\ [][NextFault]_vars

\* ================================================================ claims
Owned(uid) == {k \in DOMAIN db.user_card : k[1] = uid}
Studied == last.op = "user_card_study" /\ last.ok
StudiedKey == <<last.uid, last.args.cid>>

\* C1: after any sequence of add, import, delete and study calls every
\* user card has score >= 0, and a failed study of a card of score 0 leaves
\* its score 0.
C1_ScoreNonNegative ==
    /\ \A k \in DOMAIN db.user_card : db.user_card[k].score >= 0
    /\ (Studied /\ ~last.args.success /\ last.pre.user_card[1].score = 0)
          => db.user_card[StudiedKey].score = 0

C1_Witness ==
    /\ Studied /\ ~last.args.success /\ last.pre.user_card[1].score = 0
    /\ user_card_count(db, last.uid) > 1

\* C2: user_card_study stores card score max(0, c + 1) on success and
\* max(0, c - 1) on failure, and user score u + 1 on success and u on failure,
\* c and u being the scores before the call.
C2_StudyOutcome ==
    Studied =>
        LET c == last.pre.user_card[1].score
            u == last.pre.user[1].score
        IN  /\ db.user_card[StudiedKey].score =
                  (IF last.args.success THEN c + 1 ELSE IF c = 0 THEN 0 ELSE c - 1)
            /\ db.users[last.uid].score = (IF last.args.success THEN u + 1 ELSE u)

C2_Witness ==
    /\ Studied /\ ~last.args.success
    /\ last.pre.user_card[1].score = 2 /\ last.pre.user[1].score = 5
    /\ db.user_card[StudiedKey].score = 1 /\ db.users[last.uid].score = 5

\* C3 (as claimed): after every user_card_study call the stored level is
\* the level of the stored score.
C3_LevelOfStoredScore ==
    Studied => db.users[last.uid].level = calc_level(db.users[last.uid])

\* C4 (as claimed): user_card_study returns a level exactly when the level
\* of the new score is above the level of the old score, and then returns
\* the level of the new score.
C4_LevelUpSignal ==
    Studied =>
        LET old == last.pre.user[1]
            new == db.users[last.uid]
        IN  /\ (last.ret # None) <=> (calc_level(new) > calc_level(old))
            /\ last.ret # None => last.ret = Some(calc_level(new))

\* C5 (as claimed): a failed answer never changes the stored level and
\* never returns a level-up.
C5_FailureKeepsLevel ==
    (Studied /\ ~last.args.success) =>
        /\ db.users[last.uid].level = last.pre.user[1].level
        /\ last.ret = None

\* C6: from one state to the next no user's score and no user's stored
\* level decreases, and no user disappears.
C6_ScoreLevelNonDecreasing ==
    [][\A u \in DOMAIN db.users :
          /\ u \in DOMAIN db'.users
          /\ db'.users[u].score >= db.users[u].score
          /\ db'.users[u].level >= db.users[u].level]_vars

C6_Witness ==
    /\ Studied /\ ~last.args.success
    /\ last.pre.user[1].score = 5 /\ last.pre.user[1].level = 1
    /\ db.users[last.uid].level = 2
    /\ \E u \in DOMAIN db.users : u # last.uid /\ db.users[u].score > 0

\* C7 (as claimed): every stored user has level >= 1, a user just created
\* has score 0 and level 1.
C7_LevelAtLeastOne ==
    \A u \in DOMAIN db.users : db.users[u].level >= 1

\* C8: calc_level(s) >= 1, it does not decrease as s grows, and on the
\* documented range it is the level of the table in model.py.
DocumentedFirst == <<0, 5, 10, 19, 30, 47, 70, 104, 150>>
DocumentedLast == 216
DocumentedLevel(s) ==
    Cardinality({i \in 1..Len(DocumentedFirst) : DocumentedFirst[i] <= s})

C8_CalcLevel ==
    last.op = "calc_level" =>
        LET s == db.users[last.uid].score
        IN  /\ last.ret >= 1
            /\ \A t \in 0..s : calc_level([score |-> t]) <= last.ret
            /\ s <= DocumentedLast => last.ret = DocumentedLevel(s)
            /\ s = 0 => last.ret = 1
            /\ s = 9 => last.ret = 2
            /\ s = 10 => last.ret = 3
            /\ s = 29 => last.ret = 4

C8_Witness ==
    /\ last.op = "calc_level"
    /\ db.users[last.uid].score = DocumentedLast
    /\ last.ret = 9

\* C9: user_can_study is true exactly when the user owns 5 or more user
\* cards.
C9_CanStudy ==
    last.op = "user_can_study" => (last.ret <=> Cardinality(Owned(last.uid)) >= 5)

C9_Witness ==
    last.op = "user_can_study" /\ ~last.ret /\ Cardinality(Owned(last.uid)) = 4

C9_WitnessTrue ==
    last.op = "user_can_study" /\ last.ret /\ Cardinality(Owned(last.uid)) = 5

\* The card a round asks about and the answer it expects, as the step that
\* has just run handle_study shows them.
RoundChosen == last.op = "handle_study" /\ last.ok /\ last.ret.show # NoArgs

\* C10: a /study step chooses a round and puts the user in study_choice,
\* with the studied card's id and the expected answer in the user's data,
\* only when the user owns more than 4 user cards; no other step moves a
\* user into study_choice; and when the user owns 4 or fewer, /study chooses
\* no round and leaves the user's state and data as they were.
C10_BeginStudy ==
    [][/\ \A u \in BotUsers :
            (get_state(chat', u) = Some("study_choice") /\ get_state(chat, u) # Some("study_choice"))
                => (last'.op = "handle_study" /\ last'.uid = u /\ Cardinality(Owned(u)) > 4)
       /\ last'.op = "handle_study" =>
            LET u == last'.uid
                show == last'.ret.show
                data == retrieve_data(chat', u)
            IN  /\ Cardinality(Owned(u)) <= 4 =>
                    (chat' = chat /\ show = NoArgs /\ last'.ret.sent = <<"study_not_enough">>)
                /\ show # NoArgs =>
                    /\ Cardinality(Owned(u)) > 4
                    /\ get_state(chat', u) = Some("study_choice")
                    /\ {"cid", "answer"} \subseteq DOMAIN data
                    /\ <<u, data["cid"]>> \in Owned(u)
                    /\ data["cid"] \in show.user_cards
                    /\ data["answer"] =
                          (IF show.lng = "en" THEN db.user_card[<<u, data["cid"]>>].trans
                           ELSE db.card[data["cid"]].word)
                /\ show = NoArgs => chat' = chat
      ]_vars

\* A round starts for a user who owns exactly 5 user cards.
C10_Witness ==
    /\ RoundChosen
    /\ InState(last.uid, "study_choice")
    /\ Cardinality(Owned(last.uid)) = 5
    /\ "cid" \in DOMAIN retrieve_data(chat, last.uid)

\* /study is refused to a user who owns 4 user cards and is in the middle
\* of another conversation.
C10_WitnessRefused ==
    /\ last.op = "handle_study" /\ last.ok
    /\ last.ret.sent = <<"study_not_enough">>
    /\ Cardinality(Owned(last.uid)) = 4
    /\ InState(last.uid, "add_word")

\* a < b for fractions.
FracLess(a, b) == a.n * b.d < b.n * a.d

\* The cards user_card_choices has just been applied to, with their weights
\* and probabilities.
Chosen == last.op = "user_card_choices"
ChoiceCards == user_card_list(db, last.uid)
AllWeightsZero == \A i \in DOMAIN ChoiceCards : Weight(now, ChoiceCards[i]).n = 0

\* C11 (as claimed): whenever the user owns at least k cards,
\* user_card_choices(uid, k) returns k user cards with pairwise distinct card
\* ids, all of that user, whatever the scores and last_study times are.
C11_ChoicesReturnK ==
    (Chosen /\ Cardinality(Owned(last.uid)) >= last.args.k) =>
        /\ last.ok
        /\ last.ret # {}
        /\ \A ucs \in last.ret :
              /\ Len(ucs) = last.args.k
              /\ \A i, j \in DOMAIN ucs : i # j => ucs[i].card_id # ucs[j].card_id
              /\ \A i \in DOMAIN ucs : <<last.uid, ucs[i].card_id>> \in Owned(last.uid)

\* C12 (as claimed): when the weight of every card is zero,
\* user_card_choices does not raise and returns k of the user's cards.
C12_ZeroWeightsFallback ==
    (Chosen /\ Cardinality(Owned(last.uid)) >= last.args.k /\ AllWeightsZero) =>
        /\ last.ok
        /\ \E ucs \in last.ret : Len(ucs) = last.args.k

\* C13: the weight of a card is (now - last_study) / 86400 / (score + 1); of
\* two cards with the same score the one studied longer ago has the larger
\* weight, of two cards studied at the same earlier time the one with the
\* lower score has the larger weight, and a card never studied, with score
\* 0, has a larger weight and a larger probability than any card with a
\* positive score and a later last_study.
C13_Weights ==
    Chosen =>
        LET ucs == ChoiceCards
            w == Weights(now, ucs)
            p == Probs(now, ucs)
        IN  \A i, j \in DOMAIN ucs :
              LET a == ucs[i]
                  b == ucs[j]
              IN  /\ w[i].n * SecondsPerDay * (a.score + 1) = (now - a.last_study) * w[i].d
                  /\ (a.score = b.score /\ a.last_study < b.last_study /\ b.last_study <= now)
                        => FracLess(w[j], w[i])
                  /\ (a.last_study = b.last_study /\ a.last_study < now /\ a.score < b.score)
                        => FracLess(w[j], w[i])
                  /\ (a.last_study = 0 /\ a.score = 0 /\ b.score > 0 /\ b.last_study > 0)
                        => (FracLess(w[j], w[i]) /\ FracLess(p[j], p[i]))

\* A never studied card next to one with a positive score studied one reading
\* of the clock ago, and a selection made among them.
C13_Witness ==
    /\ Chosen /\ last.ok
    /\ \E i, j \in DOMAIN ChoiceCards :
          /\ ChoiceCards[i].last_study = 0 /\ ChoiceCards[i].score = 0
          /\ ChoiceCards[j].score > 0 /\ ChoiceCards[j].last_study = now - 1

\* The label of a drawn card on the keyboard of the round just chosen.
RoundLabel(cid) ==
    IF last.ret.show.lng = "en" THEN db.user_card[<<last.uid, cid>>].trans
    ELSE db.card[cid].word

\* C14: in every study round the card asked about is one of the k drawn
\* cards of the user, the keyboard has k buttons, one per drawn card (its
\* translation when the word is shown, its word when the translation is
\* shown), the expected answer is on one of the buttons, and the stored
\* answer is the translation of the card asked about when its word is shown
\* and its word when its translation is shown.
C14_Round ==
    RoundChosen =>
        LET u == last.uid
            show == last.ret.show
            data == retrieve_data(chat, u)
            drawn == show.user_cards
        IN  /\ {"cid", "answer"} \subseteq DOMAIN data
            /\ Cardinality(drawn) = K
            /\ \A cid \in drawn : <<u, cid>> \in Owned(u)
            /\ data["cid"] \in drawn
            /\ show.buttons = [x \in {RoundLabel(cid) : cid \in drawn} |->
                                 Cardinality({cid \in drawn : RoundLabel(cid) = x})]
            /\ data["answer"] \in DOMAIN show.buttons
            /\ data["answer"] = RoundLabel(data["cid"])
            /\ show.word = (IF show.lng = "en" THEN db.card[data["cid"]].word
                            ELSE db.user_card[<<u, data["cid"]>>].trans)

\* A round that shows the translation of a card the user gave a translation
\* of their own, and expects the word.
C14_Witness ==
    /\ RoundChosen
    /\ last.ret.show.lng = "ru"
    /\ last.ret.show.word = Custom
    /\ InState(last.uid, "study_choice")

\* A round that shows the word and expects the translation.
C14_WitnessWord ==
    /\ RoundChosen
    /\ last.ret.show.lng = "en"
    /\ InState(last.uid, "study_choice")

\* C15: in state study_choice a text, right or wrong, is answered by one
\* user_card_study of the stored card (its score one up, or one down and
\* not below 0, its last_study the time of the answer, the user's score one
\* up on a right answer; nothing else in the tables changes), after which
\* the user has no state and no data.
C15_AnswerEndsRound ==
    [][last'.op = "handle_study_choice" =>
         LET u == last'.uid
             data == retrieve_data(chat, u)
             key == <<u, data["cid"]>>
             success == Lower(last'.args.text) = Lower(data["answer"])
             c == db.user_card[key].score
         IN  /\ get_state(chat, u) = Some("study_choice")
             /\ last'.ok
             /\ last'.ret.show.success = success
             /\ last'.ret.show.cid = data["cid"]
             /\ db'.card = db.card /\ db'.card_collection = db.card_collection
             /\ DOMAIN db'.user_card = DOMAIN db.user_card
             /\ DOMAIN db'.users = DOMAIN db.users
             /\ \A k \in DOMAIN db.user_card \ {key} : db'.user_card[k] = db.user_card[k]
             /\ db'.user_card[key].score = (IF success THEN c + 1 ELSE Max(0, c - 1))
             /\ db'.user_card[key].last_study = now
             /\ db'.user_card[key].trans = db.user_card[key].trans
             /\ db'.users[u].score = db.users[u].score + (IF success THEN 1 ELSE 0)
             /\ get_state(chat', u) = None
             /\ retrieve_data(chat', u) = <<>>
      ]_vars

\* A wrong answer has ended a round.
C15_Witness ==
    /\ last.op = "handle_study_choice" /\ last.ok
    /\ ~last.ret.show.success
    /\ get_state(chat, last.uid) = None
    /\ db.user_card[<<last.uid, last.ret.show.cid>>].last_study = now - 1

\* A right answer, typed in another letter case, has ended a round.
C15_WitnessRight ==
    /\ last.op = "handle_study_choice" /\ last.ok
    /\ last.ret.show.success
    /\ last.args.text = Str(1, 1)
    /\ get_state(chat, last.uid) = None

\* The user cards and users a step keeps, those whose score, last_study or
\* level it changes, and the row a study step is about.
ChangedUserCards ==
    {k \in (DOMAIN db.user_card) \cap (DOMAIN db'.user_card) :
        \/ db'.user_card[k].score # db.user_card[k].score
        \/ db'.user_card[k].last_study # db.user_card[k].last_study}
ChangedUsers ==
    {u \in (DOMAIN db.users) \cap (DOMAIN db'.users) : db'.users[u] # db.users[u]}
StudyStepKeys ==
    IF last'.op = "user_card_study" THEN {<<last'.uid, last'.args.cid>>}
    ELSE IF last'.op = "handle_study_choice" /\ last'.ok
    THEN {<<last'.uid, last'.ret.show.cid>>}
    ELSE {}

\* C16: only user_card_study changes a stored score, level or last_study:
\* a step that is not a study (start, add word, add translation, import,
\* delete, list, stats, the choice of a round) leaves the score and
\* last_study of every user card it keeps and the score and level of every
\* user as they were, no step removes a user, and a study changes only the
\* studied user card and its user.
C16_OnlyStudyChanges ==
    [][/\ ChangedUserCards \subseteq StudyStepKeys
       /\ ChangedUsers \subseteq {k[1] : k \in StudyStepKeys}
       /\ DOMAIN db.users \subseteq DOMAIN db'.users
      ]_vars

\* A collection is imported by a user who has studied a card and who gets
\* new cards by it.
C16_Witness ==
    /\ last.op \in {"handle_import_collection", "handle_callback_query"} /\ last.ok
    /\ last.ret.show # NoArgs
    /\ last.ret.show.added_count > 0
    /\ \E k \in Owned(last.uid) : db.user_card[k].last_study > 0

\* C17 (as claimed): in state add_word a word the pattern accepts and the
\* user has a user card of is answered with user_card_exists, the user is
\* left without state (the next text is not taken as a word), and the
\* tables are as before.
C17_OwnedWordEndsAdd ==
    [][(last'.op = "handle_add_word" /\ WordMatches(last'.args.text)
          /\ user_card_exists(db, last'.uid, last'.args.text))
         => /\ last'.ret.sent = <<"user_card_exists">>
            /\ get_state(chat', last'.uid) = None
            /\ db' = db
      ]_vars

\* C18: in state add_word a text the pattern rejects (anything but latin
\* letters, spaces, hyphens and apostrophes) is answered with word_error;
\* the user stays in add_word and neither the tables nor the user's data
\* change.
C18_InvalidWordRejected ==
    [][(last'.op = "handle_add_word" /\ ~WordMatches(last'.args.text))
         => /\ last'.ret.sent = <<"word_error">>
            /\ get_state(chat', last'.uid) = Some("add_word")
            /\ chat' = chat
            /\ db' = db
      ]_vars

\* Two words with a comma between them have been rejected.
C18_Witness ==
    /\ last.op = "handle_add_word" /\ last.ok
    /\ last.args.text = TwoWords
    /\ last.ret.sent = <<"word_error">>
    /\ InState(last.uid, "add_word")

\* The word of the card whose word is the text in any letter case, or the
\* text itself when there is no such card.
PendingWord(text) ==
    IF \E i \in CardIds(db) : Lower(db.card[i].word) = Lower(text)
    THEN db.card[CHOOSE i \in CardIds(db) : Lower(db.card[i].word) = Lower(text)].word
    ELSE text

\* C19: in state add_word a word the pattern accepts and the user has no
\* user card of puts the user in state add_trans with the pending word in
\* the data (the word of the card when there is a card of that word, the
\* typed text otherwise) and changes nothing in the tables.
C19_NewWordAwaitsTranslation ==
    [][(last'.op = "handle_add_word" /\ WordMatches(last'.args.text)
          /\ ~\E k \in Owned(last'.uid) : Lower(db.card[k[2]].word) = Lower(last'.args.text))
         => /\ last'.ok
            /\ get_state(chat', last'.uid) = Some("add_trans")
            /\ "word" \in DOMAIN retrieve_data(chat', last'.uid)
            /\ retrieve_data(chat', last'.uid)["word"] = PendingWord(last'.args.text)
            /\ db' = db
      ]_vars

\* The word of a card the user does not own, typed in another letter case,
\* is pending in the card's spelling.
C19_Witness ==
    /\ last.op = "handle_add_word" /\ last.ok
    /\ last.args.text = Str(1, 1)
    /\ InState(last.uid, "add_trans")
    /\ retrieve_data(chat, last.uid)["word"] = Str(1, 0)
    /\ <<last.uid, 1>> \notin Owned(last.uid)

\* A word no card has is pending as typed.
C19_WitnessNew ==
    /\ last.op = "handle_add_word" /\ last.ok
    /\ last.ret.sent = <<"add_trans">>
    /\ InState(last.uid, "add_trans")
    /\ retrieve_data(chat, last.uid)["word"] = last.args.text

\* C20 (as claimed): in state add_trans a text gives the user a new user
\* card of the pending word, with the text as its translation and score 0,
\* so that the user has one card more (the card of the word being created
\* when there was none), and leaves the user without state and data.
C20_TranslationAddsCard ==
    [][last'.op = "handle_add_trans" =>
         LET u == last'.uid
             word == retrieve_data(chat, u)["word"]
             before == {k \in DOMAIN db.user_card : k[1] = u}
             after == {k \in DOMAIN db'.user_card : k[1] = u}
         IN  /\ last'.ok
             /\ before \subseteq after
             /\ Cardinality(after) = Cardinality(before) + 1
             /\ \A k \in after \ before :
                   /\ k[2] \in CardIds(db')
                   /\ Lower(db'.card[k[2]].word) = Lower(word)
                   /\ db'.user_card[k].trans = last'.args.text
                   /\ db'.user_card[k].score = 0
             /\ get_state(chat', u) = None
             /\ retrieve_data(chat', u) = <<>>
      ]_vars

\* The user cards of a user before and after a step.
OwnedBefore(u) == {k \in DOMAIN db.user_card : k[1] = u}
OwnedAfter(u) == {k \in DOMAIN db'.user_card : k[1] = u}

\* C21: in state delete_word the text ALL removes every user card of the
\* user, and a word the user has a user card of, in any letter case, removes
\* that user card and no other; either way the user is left without state.
C21_DeleteRemoves ==
    [][last'.op = "handle_delete_word" =>
         LET u == last'.uid
             text == last'.args.text
             named == {k \in OwnedBefore(u) : Lower(db.card[k[2]].word) = Lower(text)}
         IN  /\ text = ALL =>
                   (last'.ok /\ OwnedAfter(u) = {} /\ get_state(chat', u) = None)
             /\ (text # ALL /\ named # {}) =>
                   /\ last'.ok
                   /\ Cardinality(named) = 1
                   /\ OwnedAfter(u) = OwnedBefore(u) \ named
                   /\ \A k \in OwnedAfter(u) : db'.user_card[k] = db.user_card[k]
                   /\ get_state(chat', u) = None
      ]_vars

\* One of the imported cards has been deleted by its word typed in another
\* letter case.
C21_Witness ==
    /\ last.op = "handle_delete_word" /\ last.ok
    /\ last.args.text = Str(1, 1)
    /\ last.ret.sent = <<"user_card_deleted", "manage">>
    /\ Cardinality(Owned(last.uid)) = NDefaultCards - 1
    /\ get_state(chat, last.uid) = None

\* ALL has been sent by a user who had studied a card.
C21_WitnessAll ==
    /\ last.op = "handle_delete_word" /\ last.ok
    /\ last.args.text = ALL
    /\ last.uid \in DOMAIN db.users
    /\ db.users[last.uid].score > 0
    /\ Owned(last.uid) = {}
    /\ get_state(chat, last.uid) = None

\* C22: in state delete_word a text that is not ALL and names no word the
\* user has a user card of is answered with user_card_missing; nothing is
\* deleted and the user stays in delete_word with the same data.
C22_DeleteMiss ==
    [][(last'.op = "handle_delete_word" /\ last'.args.text # ALL
          /\ ~\E k \in OwnedBefore(last'.uid) :
                 Lower(db.card[k[2]].word) = Lower(last'.args.text))
         => /\ last'.ok
            /\ last'.ret.sent = <<"user_card_missing">>
            /\ db' = db
            /\ chat' = chat
            /\ get_state(chat', last'.uid) = Some("delete_word")
      ]_vars

\* A user who owns cards has named a word that is not among them.
C22_Witness ==
    /\ last.op = "handle_delete_word" /\ last.ok
    /\ last.ret.sent = <<"user_card_missing">>
    /\ Owned(last.uid) # {}
    /\ InState(last.uid, "delete_word")

\* C23: user_card_delete and user_card_delete_all leave every card (and the
\* collections) as it was, and every user card of any other user in place
\* and unchanged.
C23_DeleteKeepsCardsAndOthers ==
    [][last'.op \in {"user_card_delete", "user_card_delete_all"} =>
         /\ db'.card = db.card
         /\ db'.card_collection = db.card_collection
         /\ db'.users = db.users
         /\ \A k \in DOMAIN db.user_card :
               k[1] # last'.uid =>
                  (k \in DOMAIN db'.user_card /\ db'.user_card[k] = db.user_card[k])
      ]_vars

\* A user has deleted all their cards, among them a card another user owns
\* and has studied.
C23_Witness ==
    /\ last.op = "user_card_delete_all" /\ last.ok /\ last.ret > 1
    /\ Owned(last.uid) = {}
    /\ \E k \in DOMAIN db.user_card : k[1] # last.uid /\ db.user_card[k].score > 0

\* A user has deleted one card that another user owns too.
C23_WitnessOne ==
    /\ last.op = "user_card_delete" /\ last.ok /\ last.ret = 1
    /\ \E k \in DOMAIN db.user_card :
          k[1] # last.uid /\ Lower(db.card[k[2]].word) = Lower(last.args.word)

\* C24 (as claimed): collection_import(uid, cid) gives the user a user card,
\* with score 0 and the card's translation, for just the cards of the
\* collection the user has no user card of, returns their number and leaves
\* every other row as it was; a second import of the same collection
\* returns 0 and changes nothing.
C24_Import ==
    [][last'.op = "collection_import" =>
         LET u == last'.uid
             cid == last'.args.cid
             new == {i \in CardIds(db) :
                       <<i, cid>> \in db.card_collection /\ <<u, i>> \notin DOMAIN db.user_card}
         IN  /\ last'.ok
             /\ last'.ret = Cardinality(new)
             /\ DOMAIN db'.user_card = (DOMAIN db.user_card) \cup {<<u, i>> : i \in new}
             /\ \A i \in new :
                   /\ db'.user_card[<<u, i>>].trans = db.card[i].trans
                   /\ db'.user_card[<<u, i>>].score = 0
             /\ \A k \in DOMAIN db.user_card : db'.user_card[k] = db.user_card[k]
             /\ db'.card = db.card /\ db'.users = db.users
             /\ (last.op = "collection_import" /\ last.ok /\ last.uid = u /\ last.args = last'.args)
                   => (last'.ret = 0 /\ db' = db)
      ]_vars

\* C25: user_ensure never raises and leaves the id with a users row; for an
\* id that already has one it changes nothing, so the score and level stay
\* what the first call and the studies since made them; for a new id it
\* adds that one row only.
C25_EnsureIdempotent ==
    [][last'.op = "user_ensure" =>
         LET u == last'.uid
         IN  /\ last'.ok
             /\ DOMAIN db'.users = (DOMAIN db.users) \cup {u}
             /\ u \in DOMAIN db.users => db' = db
             /\ \A v \in DOMAIN db.users : db'.users[v] = db.users[v]
             /\ db'.user_card = db.user_card /\ db'.card = db.card
      ]_vars

\* A repeated user_ensure of a user who has studied since the first one.
C25_Witness ==
    /\ last.op = "user_ensure" /\ last.ok
    /\ db.users[last.uid].score > 1
    /\ db.users[last.uid].level > 0

\* C26 (as claimed): once any message or button of a chat has been handled,
\* the chat's id has a users row, whichever handler ran.
C26_UserOnFirstContact ==
    last.op # "launch" => last.uid \in DOMAIN db.users

\* The submission that committed first / last of the two.
Committed(n) == CHOOSE p \in DOMAIN tx : tx[p].order = n
BothDone == \A p \in Submissions : p \in DOMAIN tx /\ tx[p].pc = "done"
BothRight == \A p \in Submissions : tx[p].success

\* C27: nothing serialises the load and the store of two submissions of one
\* user: once both have committed, the card's score is what the last one
\* to commit computed from the row it had loaded, and the user's score is
\* what it computed from the user it had loaded, whatever the other has
\* stored since; the stored last_study is the last one's as well.
C27_LastWriterWins ==
    BothDone =>
        LET w == tx[Committed(2)]
            k == <<w.uid, w.cid>>
        IN  /\ db.user_card[k].score =
                   Max(0, w.user_card[1].score + (IF w.success THEN 1 ELSE -1))
            /\ db.users[w.uid].score = w.user[1].score + (IF w.success THEN 1 ELSE 0)

\* Two correct answers on the same card have committed and the card's score
\* is 1, not 2, above what the first one loaded.
C27_Witness ==
    /\ BothDone /\ BothRight
    /\ tx[1].cid = tx[2].cid
    /\ db.user_card[<<1, tx[1].cid>>].score = tx[Committed(1)].user_card[1].score + 1

\* Two correct answers of one user have committed and the user's score is 1,
\* not 2, above what the first one loaded.
C27_WitnessUser ==
    /\ BothDone /\ BothRight
    /\ db.users[1].score = tx[Committed(1)].user[1].score + 1

\* Two correct answers that did not overlap: the scores are 2 above.
C27_WitnessSerial ==
    /\ BothDone /\ BothRight
    /\ tx[1].cid = tx[2].cid
    /\ db.user_card[<<1, tx[1].cid>>].score = tx[Committed(1)].user_card[1].score + 2
    /\ db.users[1].score = tx[Committed(1)].user[1].score + 2

\* C28: a step that handles a message or button of one chat leaves every
\* other chat's entry of the state storage (state and data, or its absence),
\* every other user's user cards and every other user's users row as they
\* were.
C28_OtherUsersUntouched ==
    [][\A b \in Users \ {last'.uid} :
          /\ (b \in DOMAIN chat') = (b \in DOMAIN chat)
          /\ b \in DOMAIN chat => chat'[b] = chat[b]
          /\ OwnedAfter(b) = OwnedBefore(b)
          /\ \A k \in OwnedBefore(b) : db'.user_card[k] = db.user_card[k]
          /\ (b \in DOMAIN db'.users) = (b \in DOMAIN db.users)
          /\ b \in DOMAIN db.users => db'.users[b] = db.users[b]
      ]_vars

\* The first user's add conversation has just stored a card while the
\* second user is in a study round.
C28_Witness ==
    /\ last.op = "handle_add_trans" /\ last.ok /\ last.uid = 1
    /\ Owned(1) # {}
    /\ get_state(chat, 2) = Some("study_choice")
    /\ "answer" \in DOMAIN retrieve_data(chat, 2)

\* The second user's answer has just been handled while the first user
\* is asked for a translation and owns cards.
C28_WitnessStudy ==
    /\ last.op = "handle_study_choice" /\ last.ok /\ last.uid = 2
    /\ get_state(chat, 1) = Some("add_trans")
    /\ Owned(1) # {}

\* C29 (as claimed): when the handler of a text in state add_trans,
\* delete_word or study_choice raises because the database failed, the
\* user's state and data in the storage are as before the text, and so is
\* the database.
C29_FailureKeepsConversation ==
    [][(last'.op \in {"handle_add_trans", "handle_delete_word", "handle_study_choice"}
          /\ ~last'.ok)
         => (chat' = chat /\ db' = db)
      ]_vars

\* No two cards of database d have the same word ignoring case.
WordsDiffer(d) ==
    \A i, j \in CardIds(d) : Lower(d.card[i].word) = Lower(d.card[j].word) => i = j

\* C30: after the default data is loaded and after every card_add and
\* user_card_add, no two cards have words that are equal ignoring case; a
\* card_add or user_card_add of a word that some card has, in whatever
\* letter case, adds no card, returns that card's id, and the user card
\* made is of that card.
C30_WordsUniqueIgnoringCase ==
    [][/\ WordsDiffer(db) /\ WordsDiffer(db')
       /\ (last'.op \in {"card_add", "user_card_add"} /\ last'.ok
              /\ CardsOfWord(db, last'.args.word) # {})
            => /\ Len(db'.card) = Len(db.card)
               /\ \A i \in CardIds(db) : db'.card[i].word = db.card[i].word
               /\ last'.op = "card_add" => last'.ret \in CardsOfWord(db, last'.args.word)
               /\ last'.op = "user_card_add" =>
                     \E i \in CardsOfWord(db, last'.args.word) :
                        DOMAIN db'.user_card = (DOMAIN db.user_card) \cup {<<last'.uid, i>>}
      ]_vars

\* A user card has just been added with a word a card has in another letter
\* case: the user card is of that card and the card keeps its word.
C30_Witness ==
    /\ last.op = "user_card_add" /\ last.ok
    /\ \E i \in CardsOfWord(db, last.args.word) :
          /\ db.card[i].word # last.args.word
          /\ <<last.uid, i>> \in DOMAIN db.user_card
          /\ i > NDefaultCards

\* card_add has just found the card of a word typed in another letter case.
C30_WitnessCardAdd ==
    /\ last.op = "card_add" /\ last.ok
    /\ last.ret \in CardIds(db)
    /\ db.card[last.ret].word # last.args.word
    /\ Len(db.card) = NDefaultCards

\* C31: when user_card_add(uid, word, t) succeeds for a word some card has,
\* the user card it makes holds t as given (not the card's translation),
\* and every user card there was, those of other users of that card
\* included, keeps its translation, score and last_study.
C31_TranslationPerUser ==
    [][(last'.op = "user_card_add" /\ last'.ok /\ CardsOfWord(db, last'.args.word) # {})
         => LET i == CHOOSE i \in CardsOfWord(db, last'.args.word) : TRUE
            IN  /\ <<last'.uid, i>> \in DOMAIN db'.user_card
                /\ db'.user_card[<<last'.uid, i>>].trans = last'.args.trans
                /\ \A k \in DOMAIN db.user_card : db'.user_card[k] = db.user_card[k]
      ]_vars

\* A user has just added, with a translation of their own, a word whose
\* card another user owns with another translation.
C31_Witness ==
    /\ last.op = "user_card_add" /\ last.ok
    /\ \E i \in CardsOfWord(db, last.args.word) :
          \E v \in Users \ {last.uid} :
             /\ <<v, i>> \in DOMAIN db.user_card
             /\ db.user_card[<<v, i>>].trans # last.args.trans
             /\ db.user_card[<<last.uid, i>>].trans = last.args.trans
             /\ db.card[i].trans # last.args.trans

\* C32: a user_card_study(uid, cid, success) that returns sets the
\* last_study of the user card (uid, cid) to the time of the call, on a
\* right and on a wrong answer alike, and leaves every other user card (of
\* this user and of the others), every other user's users row and the
\* cards and collections as they were; one that raises changes nothing.
C32_StudyFrame ==
    [][last'.op = "user_card_study" =>
         LET u == last'.uid
             k == <<u, last'.args.cid>>
         IN  IF last'.ok
             THEN /\ DOMAIN db'.user_card = DOMAIN db.user_card
                  /\ db'.user_card[k].last_study = now
                  /\ db'.user_card[k].trans = db.user_card[k].trans
                  /\ \A x \in (DOMAIN db.user_card) \ {k} : db'.user_card[x] = db.user_card[x]
                  /\ DOMAIN db'.users = DOMAIN db.users
                  /\ \A v \in (DOMAIN db.users) \ {u} : db'.users[v] = db.users[v]
                  /\ db'.card = db.card
                  /\ db'.card_collection = db.card_collection
             ELSE db' = db
      ]_vars

\* A wrong answer has just been stored for a card never studied before,
\* while the user owns other cards and another user has studied theirs.
C32_Witness ==
    /\ last.op = "user_card_study" /\ last.ok /\ ~last.args.success
    /\ last.pre.user_card[1].last_study = 0
    /\ db.user_card[<<last.uid, last.args.cid>>].last_study = now
    /\ Cardinality(Owned(last.uid)) > 1
    /\ \E v \in (DOMAIN db.users) \ {last.uid} :
          <<v, 1>> \in DOMAIN db.user_card /\ db.user_card[<<v, 1>>].score > 0

\* The same after a right answer.
C32_WitnessRight ==
    /\ last.op = "user_card_study" /\ last.ok /\ last.args.success
    /\ db.user_card[<<last.uid, last.args.cid>>].last_study = now
    /\ Cardinality(Owned(last.uid)) > 1
    /\ \E v \in (DOMAIN db.users) \ {last.uid} : Owned(v) # {}

\* C33: whenever the user is in state study_choice, the data holds the id of
\* a card the user owns, and handle_study_choice has never raised: no
\* sequence of commands, buttons and texts of the one user removes the
\* card while the answer is awaited.
C33_FocusCardOwned ==
    /\ \A uid \in BotUsers :
          InState(uid, "study_choice") =>
             /\ "cid" \in DOMAIN retrieve_data(chat, uid)
             /\ <<uid, retrieve_data(chat, uid).cid>> \in DOMAIN db.user_card
    /\ last.op = "handle_study_choice" => last.ok

\* A round is open after the user added a word of their own and deleted a
\* default card.
C33_Witness ==
    /\ InState(1, "study_choice")
    /\ <<1, NDefaultCards + 1>> \in Owned(1)
    /\ <<1, 1>> \notin Owned(1)
    /\ <<1, retrieve_data(chat, 1).cid>> \in Owned(1)

\* An answer has just been resolved for a user who had deleted a card before.
C33_WitnessAnswered ==
    /\ last.op = "handle_study_choice" /\ last.ok
    /\ <<1, 1>> \notin Owned(1)

\* C34 (as claimed): on the keyboard of every round, in either direction,
\* one button and no more carries a label that handle_study_choice accepts,
\* that is, one equal to the stored answer ignoring case.
C34_OneChoiceAccepted ==
    RoundChosen =>
        LET show == last.ret.show
            answer == retrieve_data(chat, last.uid)["answer"]
            right == {x \in DOMAIN show.buttons : Lower(x) = Lower(answer)}
        IN  /\ Cardinality(right) = 1
            /\ \A x \in right : show.buttons[x] = 1

\* C35: after every step of the one user, whatever flow was pending before:
\* a user without a state has no data; a user in add_trans has a pending
\* word, the one handle_add_word stored in the step that entered the state
\* and unchanged since; a user in study_choice has a card id and an answer,
\* those of the round handle_study chose in the step that entered the
\* state and unchanged since.
C35_DataWrittenOnEntry ==
    [][\A u \in BotUsers :
          LET data == retrieve_data(chat, u)
              data2 == retrieve_data(chat', u)
              show == last'.ret.show
          IN  /\ get_state(chat', u) = None => data2 = <<>>
              /\ get_state(chat', u) = Some("add_trans") =>
                    /\ "word" \in DOMAIN data2
                    /\ IF last'.op = "handle_add_word"
                       THEN data2["word"] = PendingWord(last'.args.text)
                       ELSE /\ get_state(chat, u) = Some("add_trans")
                            /\ data2["word"] = data["word"]
              /\ get_state(chat', u) = Some("study_choice") =>
                    /\ {"cid", "answer"} \subseteq DOMAIN data2
                    /\ IF last'.op = "handle_study" /\ show # NoArgs
                       THEN /\ data2["cid"] \in show.user_cards
                            /\ show.word = (IF show.lng = "en" THEN db.card[data2["cid"]].word
                                            ELSE db.user_card[<<u, data2["cid"]>>].trans)
                            /\ data2["answer"] = (IF show.lng = "en"
                                                  THEN db.user_card[<<u, data2["cid"]>>].trans
                                                  ELSE db.card[data2["cid"]].word)
                       ELSE /\ get_state(chat, u) = Some("study_choice")
                            /\ data2["cid"] = data["cid"]
                            /\ data2["answer"] = data["answer"]
      ]_vars

\* The add flow was started while a study round was pending: the user is
\* asked for a translation and the data holds the round's keys as well.
C35_Witness ==
    /\ last.op = "handle_add_word" /\ last.ok
    /\ InState(1, "add_trans")
    /\ {"cid", "answer", "word"} \subseteq DOMAIN retrieve_data(chat, 1)

\* A flow started over a pending one has completed and left no data.
C35_WitnessIdle ==
    /\ last.op = "handle_add_trans" /\ last.ok
    /\ get_state(chat, 1) = None
    /\ retrieve_data(chat, 1) = <<>>
    /\ Cardinality(Owned(1)) > 5

\* A round was chosen while the user was in the delete flow, whose state it
\* replaces.
C35_WitnessRound ==
    /\ RoundChosen
    /\ InState(1, "study_choice")
    /\ <<1, 1>> \notin Owned(1)

====
